---- MODULE Spec2Model ----
(***************************************************************************)
(* Request-scoped Context / UnitOfWork session lifecycle of the ai-service *)
(* (app/core/context.py), the POST /users request path that uses it, the   *)
(* /weaviate endpoints with the application lifespan, and the pure domain  *)
(* functions create_email and EmailStr.                                    *)
(***************************************************************************)
EXTENDS Integers, Sequences, FiniteSets, TLC

\* ---------------------------------------------------------------- bounds
MaxSessions == 2
MaxUoW == 2
MaxScopes == 2
\* how many times UnitOfWork.__aexit__ may run on one session (a close that
\* raised leaves the session in place for a further exit)
MaxExits == 1
\* inbound POST /users requests, processed concurrently
MaxRequests == 2
\* objects the vector store may hold
MaxDocs == 2

\* ------------------------------------------------------------ vocabulary
\* UnitOfWork._session / "no session": Python None
None == 0

\* exception values seen by a caller; NoExc is "no exception"
NoExc == "none"
BodyError == "BodyError"            \* an Exception subclass raised by a body
Cancelled == "CancelledError"       \* a BaseException that is not an Exception
CommitError == "CommitError"
RollbackError == "RollbackError"
CloseError == "CloseError"
RuntimeError == "RuntimeError"
IndexError == "IndexError"

BodyOutcomes == {NoExc, BodyError, Cancelled}

\* isinstance(e, Exception): what `except Exception` catches
IsException(e) == e \in {BodyError, CommitError, RollbackError, CloseError, RuntimeError, IndexError}

SessionIds == 1..MaxSessions
UoWIds == 1..MaxUoW
ScopeIds == 1..MaxScopes

VARIABLES
    session_stack,   \* Context._session_stack: sequence of session ids, top last
    next_session,    \* next id the session factory hands out (fresh object per call)
    uow_session,     \* UnitOfWork._session per UnitOfWork instance (None = 0)
    scopes,          \* context managers made by session() / autocommit_scope()
    calls,           \* per session: the commit / rollback / close calls received, in order
    uow_exits,       \* per session: how many UnitOfWork exits have been run on it
    open_scopes,     \* scopes entered and not yet exited, in order of entry
    last             \* the last operation performed and what it raised

varsCtx == <<session_stack, next_session, uow_session, scopes, calls, uow_exits, open_scopes, last>>

VARIABLES
    req,               \* per inbound request: position, payload, its Context's stack, outcome
    db_rows,           \* committed rows of the users table
    db_next_id,        \* autoincrement sequence of users.id
    http_next_session, \* next id the container's session factory hands out
    http_calls,        \* per session of a request: commit / rollback / close calls, in order
    next_trace         \* source of fresh trace identifiers (uuid4)

varsHttp == <<req, db_rows, db_next_id, http_next_session, http_calls, next_trace>>

VARIABLES
    lifespan,          \* application lifetime: phase and the calls made on the two singletons
    storage,           \* vector store: per collection, the stored objects in insertion order
    uuid_counter,      \* source of object identifiers of the vector store
    wv_last,           \* the last /weaviate request and its outcome
    wv_prev            \* the embed, if one succeeded, right before the last /weaviate request

varsWv == <<lifespan, storage, uuid_counter, wv_last, wv_prev>>

VARIABLES
    email_in,          \* arguments of two create_email calls
    email_out,         \* their results, once called
    str_in,            \* argument of an EmailStr construction
    str_out,           \* its outcome, once constructed
    env_args,          \* arguments of an AppResponse.ok / fail call or of an AppException
    env_out            \* the envelope (and status code) built from them

varsFn == <<email_in, email_out, str_in, str_out, env_args, env_out>>

vars == <<session_stack, next_session, uow_session, scopes, calls, uow_exits, open_scopes, last,
          req, db_rows, db_next_id, http_next_session, http_calls, next_trace,
          lifespan, storage, uuid_counter, wv_last, wv_prev,
          email_in, email_out, str_in, str_out, env_args, env_out>>

\* --------------------------------------------------------------- helpers
Top(stack) == stack[Len(stack)]

Front(stack) == SubSeq(stack, 1, Len(stack) - 1)

Contains(stack, s) == \E i \in 1..Len(stack) : stack[i] = s

\* position of the first occurrence of s in stack (0 when absent)
FirstIndex(stack, s) ==
    IF Contains(stack, s)
    THEN CHOOSE i \in 1..Len(stack) : stack[i] = s /\ \A j \in 1..(i - 1) : stack[j] # s
    ELSE 0

\* list.remove(s): delete the first occurrence; ValueError is swallowed by the caller
ListRemove(stack, s) ==
    LET i == FirstIndex(stack, s)
    IN IF i = 0 THEN stack
       ELSE SubSeq(stack, 1, i - 1) \o SubSeq(stack, i + 1, Len(stack))

\* position of the last entry of open_scopes owned by `owner` (0 when absent)
LastOwned(open, owner) ==
    IF \E i \in 1..Len(open) : open[i].owner = owner
    THEN CHOOSE i \in 1..Len(open) :
            open[i].owner = owner /\ \A j \in (i + 1)..Len(open) : open[j].owner # owner
    ELSE 0

\* bookkeeping of the history: the scope of `owner` entered last has been exited
CloseScope(open, owner) ==
    LET i == LastOwned(open, owner)
    IN IF i = 0 THEN open
       ELSE SubSeq(open, 1, i - 1) \o SubSeq(open, i + 1, Len(open))

NoFail == [commit |-> FALSE, rollback |-> FALSE, close |-> FALSE]

Op(op, owner, s, exc, raised, failed) ==
    [op |-> op, owner |-> owner, session |-> s, exc |-> exc, raised |-> raised,
     failed |-> failed]

CtxOwner == <<"ctx", 0>>
UoWOwner(u) == <<"uow", u>>
ScopeOwner(c) == <<"scope", c>>

\* ---------------------------------------------------------------- Context
\* Context.db_session: RuntimeError on an empty stack, else the top
db_session(stack) ==
    IF Len(stack) = 0
    THEN [raised |-> RuntimeError, session |-> None]
    ELSE [raised |-> NoExc, session |-> Top(stack)]

\* Context.session(), `finally` branch: self._session_stack.pop()
StackPop(stack) == IF Len(stack) = 0 THEN stack ELSE Front(stack)

\* UnitOfWork.__aexit__, `finally` branch: pop when the session is on top,
\* else list.remove, a ValueError being swallowed
StackRemove(stack, s) ==
    IF Len(stack) > 0 /\ Top(stack) = s
    THEN Front(stack)
    ELSE ListRemove(stack, s)

\* a `finally` branch that closes first and pops only after a close that
\* did not raise
SessionFinallyCloseFirst(stack, raised, failClose) ==
    IF Len(stack) = 0
    THEN [stack |-> stack, calls |-> <<>>, raised |-> IndexError, close_failed |-> FALSE]
    ELSE [stack |-> IF failClose THEN stack ELSE StackPop(stack),
          calls |-> <<"close">>,
          raised |-> IF failClose THEN CloseError ELSE raised,
          close_failed |-> failClose]

\* Context.session(): the `finally` branch run with `raised` in flight:
\* pop the stack, then close the scope's session
SessionFinally(stack, raised, failClose) ==
    IF Len(stack) = 0
    THEN [stack |-> stack, calls |-> <<>>, raised |-> IndexError, close_failed |-> FALSE]
    ELSE [stack |-> StackPop(stack),
          calls |-> <<"close">>,
          raised |-> IF failClose THEN CloseError ELSE raised,
          close_failed |-> failClose]

\* variant of AutocommitTx that leaves the scope without committing
AutocommitTxNoCommit(exc, failCommit, failRollback) ==
    IF exc = NoExc
    THEN [calls |-> <<>>, raised |-> NoExc,
          failed |-> [commit |-> FALSE, rollback |-> FALSE]]
    ELSE IF IsException(exc)
         THEN [calls |-> <<"rollback">>,
               raised |-> IF failRollback THEN RollbackError ELSE exc,
               failed |-> [commit |-> FALSE, rollback |-> failRollback]]
         ELSE [calls |-> <<>>, raised |-> exc,
               failed |-> [commit |-> FALSE, rollback |-> FALSE]]

\* variant of AutocommitTx whose handler is `except BaseException`: a
\* cancellation is rolled back like any other exception
AutocommitTxCatchAll(exc, failCommit, failRollback) ==
    IF exc = NoExc
    THEN IF failCommit
         THEN [calls |-> <<"commit", "rollback">>,
               raised |-> IF failRollback THEN RollbackError ELSE CommitError,
               failed |-> [commit |-> TRUE, rollback |-> failRollback]]
         ELSE [calls |-> <<"commit">>, raised |-> NoExc,
               failed |-> [commit |-> FALSE, rollback |-> FALSE]]
    ELSE [calls |-> <<"rollback">>,
          raised |-> IF failRollback THEN RollbackError ELSE exc,
          failed |-> [commit |-> FALSE, rollback |-> failRollback]]

\* an autocommit scope whose commit is followed by a second commit
AutocommitTxCommitsTwice(exc, failCommit, failRollback) ==
    IF exc = NoExc /\ ~failCommit
    THEN [calls |-> <<"commit", "commit">>, raised |-> NoExc,
          failed |-> [commit |-> FALSE, rollback |-> FALSE]]
    ELSE [calls |-> <<"rollback">>,
          raised |-> IF failRollback THEN RollbackError ELSE IF exc = NoExc THEN CommitError ELSE exc,
          failed |-> [commit |-> failCommit /\ exc = NoExc, rollback |-> failRollback]]

\* Context.autocommit_scope(): what the try / except Exception block around
\* the yield calls on the session and what it lets propagate
AutocommitTx(exc, failCommit, failRollback) ==
    IF exc = NoExc
    THEN IF failCommit
         THEN [calls |-> <<"commit", "rollback">>,
               raised |-> IF failRollback THEN RollbackError ELSE CommitError,
               failed |-> [commit |-> TRUE, rollback |-> failRollback]]
         ELSE [calls |-> <<"commit">>, raised |-> NoExc,
               failed |-> [commit |-> FALSE, rollback |-> FALSE]]
    ELSE IF IsException(exc)
         THEN [calls |-> <<"rollback">>,
               raised |-> IF failRollback THEN RollbackError ELSE exc,
               failed |-> [commit |-> FALSE, rollback |-> failRollback]]
         ELSE [calls |-> <<>>, raised |-> exc,
               failed |-> [commit |-> FALSE, rollback |-> FALSE]]

\* Context.autocommit_scope() exit as a whole: the transaction block nested
\* in the session() scope
AutocommitExitResult(stack, exc, failCommit, failRollback, failClose) ==
    LET tx == AutocommitTx(exc, failCommit, failRollback)
        fin == SessionFinally(stack, tx.raised, failClose)
    IN [stack |-> fin.stack,
        calls |-> tx.calls \o fin.calls,
        raised |-> fin.raised,
        failed |-> [commit |-> tx.failed.commit, rollback |-> tx.failed.rollback,
                    close |-> fin.close_failed]]

\* ------------------------------------------------------------- UnitOfWork
\* variant of UoWTxCall that commits whatever the body did
UoWTxCallAlwaysCommit(exc) == "commit"

\* UnitOfWork.__aexit__: commit when exc is None, rollback otherwise
UoWTxCall(exc) == IF exc = NoExc THEN "commit" ELSE "rollback"

\* UnitOfWork.__aexit__ with self._session = s: try commit/rollback,
\* finally close, remove from the stack, clear the reference
UoWExitResult(stack, s, exc, failTx, failClose) ==
    LET txRaised == IF ~failTx THEN exc
                    ELSE IF exc = NoExc THEN CommitError ELSE RollbackError
        failed == [commit |-> failTx /\ exc = NoExc,
                   rollback |-> failTx /\ exc # NoExc,
                   close |-> failClose]
    IN IF failClose
       THEN [stack |-> stack, session |-> s,
             calls |-> <<UoWTxCall(exc), "close">>,
             raised |-> CloseError, failed |-> failed]
       ELSE [stack |-> StackRemove(stack, s), session |-> None,
             calls |-> <<UoWTxCall(exc), "close">>,
             raised |-> txRaised, failed |-> failed]

\* ------------------------------------------------------------------ Init
InitCtx ==
    /\ session_stack = <<>>
    /\ next_session = 1
    /\ uow_session = [u \in UoWIds |-> None]
    /\ scopes = [c \in ScopeIds |-> [kind |-> "-", st |-> "new", session |-> None]]
    /\ calls = [s \in SessionIds |-> <<>>]
    /\ uow_exits = [s \in SessionIds |-> 0]
    /\ open_scopes = <<>>
    /\ last = Op("init", CtxOwner, None, NoExc, NoExc, NoFail)

\* --------------------------------------------------------------- actions
\* the first context manager not yet used
FreshScope(c) ==
    /\ scopes[c].st = "new"
    /\ \A d \in ScopeIds : d < c => scopes[d].st # "new"

\* entering `async with ctx.session()` (kind "session") or
\* `async with ctx.autocommit_scope()` (kind "autocommit"): both run
\* Context.session() up to its yield
ScopeEnter(c, kind) ==
    /\ FreshScope(c)
    /\ next_session <= MaxSessions
    /\ session_stack' = Append(session_stack, next_session)
    /\ scopes' = [scopes EXCEPT ![c] = [kind |-> kind, st |-> "open", session |-> next_session]]
    /\ open_scopes' = Append(open_scopes, [owner |-> ScopeOwner(c), session |-> next_session])
    /\ last' = Op(kind \o "_enter", ScopeOwner(c), next_session, NoExc, NoExc, NoFail)
    /\ next_session' = next_session + 1
    /\ UNCHANGED <<uow_session, calls, uow_exits>>
    /\ UNCHANGED <<varsHttp, varsWv, varsFn>>

SessionEnter == \E c \in ScopeIds : ScopeEnter(c, "session")

AutocommitEnter == \E c \in ScopeIds : ScopeEnter(c, "autocommit")

\* leaving the body of `async with ctx.session()` with outcome exc
SessionExit ==
    \E c \in ScopeIds, exc \in BodyOutcomes, failClose \in BOOLEAN :
        /\ scopes[c].st = "open" /\ scopes[c].kind = "session"
        /\ LET s == scopes[c].session
               r == SessionFinally(session_stack, exc, failClose)
           IN /\ session_stack' = r.stack
              /\ calls' = [calls EXCEPT ![s] = @ \o r.calls]
              /\ last' = Op("session_exit", ScopeOwner(c), s, exc, r.raised,
                             [NoFail EXCEPT !.close = r.close_failed])
        /\ scopes' = [scopes EXCEPT ![c] = [kind |-> "-", st |-> "done", session |-> None]]
        /\ open_scopes' = CloseScope(open_scopes, ScopeOwner(c))
        /\ UNCHANGED <<next_session, uow_session, uow_exits>>
        /\ UNCHANGED <<varsHttp, varsWv, varsFn>>

\* leaving the body of `async with ctx.autocommit_scope()` with outcome exc
AutocommitExit ==
    \E c \in ScopeIds, exc \in BodyOutcomes, failCommit, failRollback, failClose \in BOOLEAN :
        /\ scopes[c].st = "open" /\ scopes[c].kind = "autocommit"
        /\ LET s == scopes[c].session
               r == AutocommitExitResult(session_stack, exc, failCommit, failRollback, failClose)
           IN /\ session_stack' = r.stack
              /\ calls' = [calls EXCEPT ![s] = @ \o r.calls]
              /\ last' = Op("autocommit_exit", ScopeOwner(c), s, exc, r.raised, r.failed)
        /\ scopes' = [scopes EXCEPT ![c] = [kind |-> "-", st |-> "done", session |-> None]]
        /\ open_scopes' = CloseScope(open_scopes, ScopeOwner(c))
        /\ UNCHANGED <<next_session, uow_session, uow_exits>>
        /\ UNCHANGED <<varsHttp, varsWv, varsFn>>

\* a UnitOfWork instance that holds no session and has no entry pending;
\* such instances are interchangeable, the one of lowest index is used
UoWIdle(u) ==
    /\ uow_session[u] = None
    /\ \A i \in 1..Len(open_scopes) : open_scopes[i].owner # UoWOwner(u)

UoWUsable(u) == UoWIdle(u) => \A v \in UoWIds : v < u => ~UoWIdle(v)

\* UnitOfWork.__aenter__ on instance u: the session already held, if any,
\* is not consulted
UoWEnterResult(stack, held, fresh) ==
    [stack |-> Append(stack, fresh), session |-> fresh, raised |-> NoExc, created |-> TRUE]

UoWEnter ==
    \E u \in UoWIds :
        /\ UoWUsable(u)
        /\ next_session <= MaxSessions
        /\ LET r == UoWEnterResult(session_stack, uow_session[u], next_session)
           IN /\ session_stack' = r.stack
              /\ uow_session' = [uow_session EXCEPT ![u] = r.session]
              /\ next_session' = IF r.created THEN next_session + 1 ELSE next_session
              /\ open_scopes' = IF r.raised = NoExc
                                 THEN Append(open_scopes, [owner |-> UoWOwner(u), session |-> r.session])
                                 ELSE open_scopes
              /\ last' = Op("uow_enter", UoWOwner(u), r.session, NoExc, r.raised, NoFail)
        /\ UNCHANGED <<scopes, calls, uow_exits>>
        /\ UNCHANGED <<varsHttp, varsWv, varsFn>>

\* UnitOfWork.__aexit__(exc) on instance u
UoWExit ==
    \E u \in UoWIds, exc \in BodyOutcomes, failTx, failClose \in BOOLEAN :
        /\ UoWUsable(u)
        /\ IF uow_session[u] = None
           THEN /\ ~failTx /\ ~failClose
                /\ last' = Op("uow_exit", UoWOwner(u), None, exc, exc, NoFail)
                /\ UNCHANGED <<session_stack, uow_session, calls, uow_exits>>
           ELSE LET s == uow_session[u]
                    r == UoWExitResult(session_stack, s, exc, failTx, failClose)
                IN /\ uow_exits[s] < MaxExits
                   /\ session_stack' = r.stack
                   /\ uow_session' = [uow_session EXCEPT ![u] = r.session]
                   /\ calls' = [calls EXCEPT ![s] = @ \o r.calls]
                   /\ uow_exits' = [uow_exits EXCEPT ![s] = @ + 1]
                   /\ last' = Op("uow_exit", UoWOwner(u), s, exc, r.raised, r.failed)
        /\ open_scopes' = CloseScope(open_scopes, UoWOwner(u))
        /\ UNCHANGED <<next_session, scopes>>
        /\ UNCHANGED <<varsHttp, varsWv, varsFn>>

\* ------------------------------------------------------- POST /users
\* strings are sequences of characters
Chr(s) == <<s>>

\* str.lower() on one character of the alphabet in use
ToLower(c) ==
    CASE c = "A" -> "a"
      [] c = "L" -> "l"
      [] c = "I" -> "i"
      [] c = "S" -> "s"
      [] c = "M" -> "m"
      [] OTHER -> c

\* str.lower()
Lower(str) == [i \in 1..Len(str) |-> ToLower(str[i])]

ExampleDomain == <<"@", "e", "x", "a", "m", "p", "l", "e", ".", "c", "o", "m">>

\* create_email lower-casing the name only
create_email_surname_as_is(user_name, user_surname) ==
    Lower(user_name) \o <<".">> \o user_surname \o ExampleDomain

\* create_email: f"{user_name.lower()}.{user_surname.lower()}@example.com"
create_email(user_name, user_surname) ==
    Lower(user_name) \o <<".">> \o Lower(user_surname) \o ExampleDomain

\* a check that accepts every non-empty value
EmailStrOkNonEmpty(value) == Len(value) > 0

\* EmailStr.__post_init__: "@" in value
EmailStrOk(value) == \E i \in 1..Len(value) : value[i] = "@"

\* CreateUserRequest field constraints
UserNameMinLen == 3
UserNameMaxLen == 50
SurnameMinLen == 1
SurnameMaxLen == 50
PasswordMinLen == 6

\* CreateUserRequest without the max_length constraints
ValidationErrorsNoMaxLength(p) ==
    (IF Len(p.user_name) < UserNameMinLen THEN <<"user_name">> ELSE <<>>)
    \o (IF Len(p.user_surname) < SurnameMinLen THEN <<"user_surname">> ELSE <<>>)
    \o (IF Len(p.password) < PasswordMinLen THEN <<"password">> ELSE <<>>)

\* fields of CreateUserRequest that fail validation, in declaration order
ValidationErrors(p) ==
    (IF Len(p.user_name) < UserNameMinLen \/ Len(p.user_name) > UserNameMaxLen
     THEN <<"user_name">> ELSE <<>>)
    \o (IF Len(p.user_surname) < SurnameMinLen \/ Len(p.user_surname) > SurnameMaxLen
        THEN <<"user_surname">> ELSE <<>>)
    \o (IF Len(p.password) < PasswordMinLen THEN <<"password">> ELSE <<>>)

\* a text one character longer than the longest name the schema accepts
LongText == [i \in 1..(UserNameMaxLen + 1) |-> "x"]

\* payloads a client may send
UserNames == {<<"A", "l">>, <<"a", "L", "I">>, LongText}
Surnames == {<<>>, <<"S", "m">>, LongText}
Passwords == {<<"s", "h", "o", "r", "t">>, <<"h", "u", "n", "t", "e", "r">>}
\* the valid payloads, and invalid ones that violate one constraint each or
\* (test_create_user_validation_error) user_name and password together
Payloads ==
    {p \in [user_name : UserNames, user_surname : Surnames, password : Passwords] :
        \/ Len(ValidationErrors(p)) = 0
        \/ p = [user_name |-> <<"A", "l">>, user_surname |-> <<"S", "m">>,
                password |-> <<"s", "h", "o", "r", "t">>]
        \/ Len(ValidationErrors(p)) = 1}

RequestIds == 1..MaxRequests
HttpSessionIds == 1..MaxRequests

NoPayload == [user_name |-> <<>>, user_surname |-> <<>>, password |-> <<>>]
NoRow == [id |-> 0, name |-> <<>>, surname |-> <<>>, email |-> <<>>]
NoData == [user_name |-> <<>>, user_surname |-> <<>>, email |-> <<>>]
NoResponse ==
    [status |-> 0, body |-> "none", success |-> FALSE, data |-> NoData, message |-> "",
     error_code |-> "", errors |-> <<>>, trace_id |-> 0, header_trace_id |-> 0]

\* AppResponse.ok(user, message="User created", trace_id=trace_id), status 201
CreatedResponse(data, trace) ==
    [status |-> 201, body |-> "envelope", success |-> TRUE, data |-> data,
     message |-> "User created", error_code |-> "", errors |-> <<>>,
     trace_id |-> trace, header_trace_id |-> trace]

\* request_validation_error_handler: AppResponse.fail(VALIDATION_ERROR ...), status 422
ValidationErrorResponse(fields, trace) ==
    [status |-> 422, body |-> "envelope", success |-> FALSE, data |-> NoData,
     message |-> "Request validation failed", error_code |-> "VALIDATION_ERROR", errors |-> fields,
     trace_id |-> trace, header_trace_id |-> trace]

\* app_exception_handler on the DomainValidationError of EmailStr
DomainValidationResponse(trace) ==
    [status |-> 422, body |-> "envelope", success |-> FALSE, data |-> NoData,
     message |-> "Invalid email address", error_code |-> "VALIDATION_ERROR", errors |-> <<"email">>,
     trace_id |-> trace, header_trace_id |-> trace]

\* no handler is registered for other exceptions: the server's default
\* 500 answer, sent outside the middleware that sets X-Trace-Id
UnhandledErrorResponse ==
    [status |-> 500, body |-> "plain", success |-> FALSE, data |-> NoData,
     message |-> "", error_code |-> "", errors |-> <<>>,
     trace_id |-> 0, header_trace_id |-> 0]

\* a container whose context provider is a Singleton: one Context for all requests
ContextOfSingleton(r) == 1

\* container.context is a providers.Factory: get_context hands request r a
\* Context of its own, whose _session_stack is the `stack` field of r
ContextOf(r) == r

\* ctx._session_stack of the Context request r works with
StackOf(r) == req[ContextOf(r)].stack

IdleRequest ==
    [pc |-> "idle", payload |-> NoPayload, trace_id |-> 0, stack |-> <<>>, session |-> None,
     email |-> <<>>, row |-> NoRow, pending |-> {}, exc |-> NoExc, raised |-> NoExc,
     response |-> NoResponse, read |-> {}]

InitHttp ==
    /\ req = [r \in RequestIds |-> IdleRequest]
    /\ db_rows = {}
    /\ db_next_id = 1
    /\ http_next_session = 1
    /\ http_calls = [s \in HttpSessionIds |-> <<>>]
    /\ next_trace = 1

\* TraceIdMiddleware.dispatch assigns the trace id; the payload is validated
\* against CreateUserRequest before the handler body runs
Receive ==
    \E r \in RequestIds, p \in Payloads :
        /\ req[r].pc = "idle"
        /\ \A q \in RequestIds : q < r => req[q].pc # "idle"
        /\ req' = [req EXCEPT ![r] =
                     IF ValidationErrors(p) # <<>>
                     THEN [@ EXCEPT !.pc = "done", !.payload = p, !.trace_id = next_trace,
                                    !.response = ValidationErrorResponse(ValidationErrors(p), next_trace)]
                     ELSE [@ EXCEPT !.pc = "handler", !.payload = p, !.trace_id = next_trace]]
        /\ next_trace' = next_trace + 1
        /\ UNCHANGED <<db_rows, db_next_id, http_next_session, http_calls>>
        /\ UNCHANGED <<varsCtx, varsWv, varsFn>>

\* create_user -> UserService.create_user -> create_user_operation:
\* derive the email, then create_user_in_db enters ctx.autocommit_scope()
OpenScope ==
    \E r \in RequestIds :
        /\ req[r].pc = "handler"
        /\ http_next_session <= MaxRequests
        /\ req' = [req EXCEPT ![r] =
                     [@ EXCEPT !.pc = "scope_open",
                               !.email = create_email(req[r].payload.user_name,
                                                      req[r].payload.user_surname),
                               !.session = http_next_session],
                              ![ContextOf(r)].stack = Append(@, http_next_session)]
        /\ http_next_session' = http_next_session + 1
        /\ UNCHANGED <<db_rows, db_next_id, http_calls, next_trace>>
        /\ UNCHANGED <<varsCtx, varsWv, varsFn>>

\* create_user_in_db body: session.execute(insert ... returning), scalar_one()
Execute ==
    \E r \in RequestIds, fail \in BOOLEAN :
        /\ req[r].pc = "scope_open"
        /\ IF fail
           THEN /\ req' = [req EXCEPT ![r] = [@ EXCEPT !.pc = "executed", !.exc = BodyError]]
                /\ UNCHANGED db_next_id
           ELSE LET row == [id |-> db_next_id, name |-> req[r].payload.user_name,
                            surname |-> req[r].payload.user_surname, email |-> req[r].email]
                IN /\ req' = [req EXCEPT ![r] =
                                [@ EXCEPT !.pc = "executed", !.row = row, !.pending = {row}]]
                   /\ db_next_id' = db_next_id + 1
        /\ UNCHANGED <<db_rows, http_next_session, http_calls, next_trace>>
        /\ UNCHANGED <<varsCtx, varsWv, varsFn>>

\* rows the store holds after the calls of a scope exit: a commit that did
\* not raise makes the session's pending rows durable
RowsAfter(rows, pending, result) ==
    IF Len(result.calls) > 0 /\ result.calls[1] = "commit" /\ ~result.failed.commit
    THEN rows \cup pending
    ELSE rows

\* leaving `async with ctx.autocommit_scope()` in create_user_in_db
ExitScope ==
    \E r \in RequestIds, failCommit, failRollback, failClose \in BOOLEAN :
        /\ req[r].pc = "executed"
        /\ LET res == AutocommitExitResult(StackOf(r), req[r].exc,
                                           failCommit, failRollback, failClose)
           IN /\ req' = [req EXCEPT ![r] =
                           [@ EXCEPT !.pc = "returning",
                                     !.pending = {}, !.raised = res.raised],
                                    ![ContextOf(r)].stack = res.stack]
              /\ db_rows' = RowsAfter(db_rows, req[r].pending, res)
              /\ http_calls' = [http_calls EXCEPT ![req[r].session] = @ \o res.calls]
        /\ UNCHANGED <<db_next_id, http_next_session, next_trace>>
        /\ UNCHANGED <<varsCtx, varsWv, varsFn>>

\* create_user after the service call: build the User (EmailStr check) and
\* the 201 envelope, or let the exception reach the exception handlers
Respond ==
    \E r \in RequestIds :
        /\ req[r].pc = "returning"
        /\ req' = [req EXCEPT ![r] =
                     [@ EXCEPT !.pc = "done",
                               !.response =
                                  IF req[r].raised # NoExc
                                  THEN UnhandledErrorResponse
                                  ELSE IF ~EmailStrOk(req[r].row.email)
                                  THEN DomainValidationResponse(req[r].trace_id)
                                  ELSE CreatedResponse(
                                         [user_name |-> req[r].row.name,
                                          user_surname |-> req[r].payload.user_surname,
                                          email |-> req[r].row.email],
                                         req[r].trace_id)]]
        /\ UNCHANGED <<db_rows, db_next_id, http_next_session, http_calls, next_trace>>
        /\ UNCHANGED <<varsCtx, varsWv, varsFn>>

\* a session opened independently of the request selects the users with
\* the email of the response
ReadBack ==
    \E r \in RequestIds :
        /\ req[r].pc = "done"
        /\ req[r].response.status = 201
        /\ req' = [req EXCEPT ![r] =
                     [@ EXCEPT !.pc = "read",
                               !.read = {row \in db_rows : row.email = req[r].response.data.email}]]
        /\ UNCHANGED <<db_rows, db_next_id, http_next_session, http_calls, next_trace>>
        /\ UNCHANGED <<varsCtx, varsWv, varsFn>>

\* ------------------------------------- application lifespan, /weaviate
\* providers.Singleton: the first call creates the instance, later calls
\* return the one that exists
SingletonGet(created) == IF created = 0 THEN 1 ELSE created

NewLifespan ==
    [phase |-> "new", engines |-> 0, clients |-> 0, connects |-> 0, closes |-> 0,
     disposes |-> 0, wired |-> FALSE, close_raised |-> FALSE]

\* lifespan up to `yield`: container.engine(), container.wire(...),
\* container.weaviate_client(), await weaviate_client.connect(); a failing
\* connect is logged and re-raised, the application does not start
LifespanEnter(l, failConnect) ==
    [l EXCEPT !.engines = SingletonGet(@),
              !.wired = TRUE,
              !.clients = SingletonGet(@),
              !.connects = @ + 1,
              !.phase = IF failConnect THEN "failed" ELSE "serving"]

\* the finally block without the try / except around weaviate_client.close()
LifespanExitUnguardedClose(l, failClose) ==
    IF failClose
    THEN [l EXCEPT !.closes = @ + 1, !.close_raised = TRUE, !.phase = "stopped"]
    ELSE [l EXCEPT !.closes = @ + 1, !.disposes = @ + 1, !.wired = FALSE, !.phase = "stopped"]

\* lifespan after `yield`: close the client (an Exception is logged and
\* swallowed), engine.dispose(), container.unwire()
LifespanExit(l, failClose) ==
    [l EXCEPT !.closes = @ + 1,
              !.close_raised = failClose,
              !.disposes = @ + 1,
              !.wired = FALSE,
              !.phase = "stopped"]

Collections == {"c1", "c2"}

\* EmbedRequest.text / SearchRequest.query: min_length=1, max_length=10000
TextMinLen == 1
TextMaxLen == 10000
TextOk(text) == Len(text) >= TextMinLen /\ Len(text) <= TextMaxLen

\* texts and queries a client may send
Texts == {<<>>, <<" ">>, <<"A">>, <<"a", " ", "l">>}

\* SearchRequest.limit: default 10
DefaultLimit == 10
Limits == {1, DefaultLimit}

\* str(e) of the exceptions the vector-store client may raise
ClientErrors == {"connection refused", "collection not found"}
ClientOutcomes == {NoExc} \cup ClientErrors

\* str.split(): the words of str[i..], cur being the word read so far
RECURSIVE SplitFrom(_, _, _)
SplitFrom(str, i, cur) ==
    IF i > Len(str)
    THEN (IF cur = <<>> THEN {} ELSE {cur})
    ELSE IF str[i] = " "
    THEN (IF cur = <<>> THEN {} ELSE {cur}) \cup SplitFrom(str, i + 1, <<>>)
    ELSE SplitFrom(str, i + 1, Append(cur, str[i]))

\* set(text.lower().split())
Words(str) == SplitFrom(Lower(str), 1, <<>>)

\* len(query_words & text_words); score = overlap / (len(query_words) + 1)
Overlap(query, text) == Cardinality(Words(query) \cap Words(text))

\* distance = 1 - score, kept as an exact fraction
Distance(query, text) ==
    [num |-> Cardinality(Words(query)) + 1 - Overlap(query, text),
     den |-> Cardinality(Words(query)) + 1]

\* results.sort(key=distance): a stable sort, ascending distance is
\* descending overlap; k is the largest overlap not yet emitted
RECURSIVE SortFrom(_, _, _)
SortFrom(items, query, k) ==
    IF k = 0
    THEN <<>>
    ELSE SelectSeq(items, LAMBDA it : Overlap(query, it.text) = k) \o SortFrom(items, query, k - 1)

\* MockWeaviateService.embed_text: the store appends the object under a new identifier
StoreInsert(store, counter, text, collection) ==
    [storage |-> [store EXCEPT ![collection] = Append(@, [text |-> text, uuid |-> counter + 1])],
     uuid_counter |-> counter + 1,
     uuid |-> counter + 1]

\* a search that returns every matching object, whatever the limit
StoreSearchUncut(store, query, collection, limit) ==
    LET sorted == SortFrom(store[collection], query, Cardinality(Words(query)))
    IN [i \in 1..Len(sorted) |->
           [uuid |-> sorted[i].uuid, text |-> sorted[i].text,
            distance |-> Distance(query, sorted[i].text)]]

\* MockWeaviateService.search: objects with score > 0, sorted by distance, cut at limit
StoreSearch(store, query, collection, limit) ==
    LET sorted == SortFrom(store[collection], query, Cardinality(Words(query)))
        cut == SubSeq(sorted, 1, IF Len(sorted) < limit THEN Len(sorted) ELSE limit)
    IN [i \in 1..Len(cut) |->
           [uuid |-> cut[i].uuid, text |-> cut[i].text, distance |-> Distance(query, cut[i].text)]]

ValueError == "ValueError"
ClientError == "ClientError"

NoOpResult ==
    [raised |-> NoExc, message |-> <<>>, uuid |-> 0, results |-> <<>>]

\* embed_text_in_weaviate re-raising the client's exception as it is
embed_text_in_weaviate_reraise(store, counter, text, collection, clientError) ==
    IF clientError # NoExc
    THEN [NoOpResult EXCEPT !.raised = ClientError, !.message = <<clientError>>]
    ELSE [NoOpResult EXCEPT !.uuid = StoreInsert(store, counter, text, collection).uuid]

\* embed_text_in_weaviate: insert, or ValueError(f"Failed to embed text: {str(e)}")
embed_text_in_weaviate(store, counter, text, collection, clientError) ==
    IF clientError # NoExc
    THEN [NoOpResult EXCEPT !.raised = ValueError,
                            !.message = <<"Failed to embed text: ", clientError>>]
    ELSE [NoOpResult EXCEPT !.uuid = StoreInsert(store, counter, text, collection).uuid]

\* search_in_weaviate: bm25 query, or ValueError(f"Failed to search: {str(e)}")
search_in_weaviate(store, query, collection, limit, clientError) ==
    IF clientError # NoExc
    THEN [NoOpResult EXCEPT !.raised = ValueError,
                            !.message = <<"Failed to search: ", clientError>>]
    ELSE [NoOpResult EXCEPT !.results = StoreSearch(store, query, collection, limit)]

\* status_code of the route decorators
EmbedStatusCode == 201
SearchStatusCode == 200

NoWvResponse ==
    [status |-> 0, body |-> "none", success |-> FALSE, message |-> "", error_code |-> "",
     detail |-> <<>>, uuid |-> 0, results |-> <<>>, count |-> 0]

\* RequestValidationError on EmbedRequest / SearchRequest
WvValidationResponse ==
    [NoWvResponse EXCEPT !.status = 422, !.body = "envelope",
                         !.message = "Request validation failed",
                         !.error_code = "VALIDATION_ERROR"]

\* an exception that leaves the route: the server's default 500 answer
WvUnhandledResponse == [NoWvResponse EXCEPT !.status = 500, !.body = "plain"]

\* route embed_text: AppResponse.ok(...) or, on ValueError, AppResponse.fail(...);
\* both are returned from the handler, so both go out with the route's status
embed_text(result) ==
    IF result.raised = NoExc
    THEN [NoWvResponse EXCEPT !.status = EmbedStatusCode, !.body = "envelope",
                              !.success = TRUE, !.message = "Text embedded successfully",
                              !.uuid = result.uuid]
    ELSE IF result.raised = ValueError
    THEN [NoWvResponse EXCEPT !.status = EmbedStatusCode, !.body = "envelope",
                              !.message = "Failed to embed text",
                              !.error_code = "WEAVIATE_ERROR", !.detail = result.message]
    ELSE WvUnhandledResponse

\* route search_weaviate
search_weaviate(result) ==
    IF result.raised = NoExc
    THEN [NoWvResponse EXCEPT !.status = SearchStatusCode, !.body = "envelope",
                              !.success = TRUE, !.message = "Search completed",
                              !.results = result.results, !.count = Len(result.results)]
    ELSE IF result.raised = ValueError
    THEN [NoWvResponse EXCEPT !.status = SearchStatusCode, !.body = "envelope",
                              !.message = "Failed to search",
                              !.error_code = "WEAVIATE_ERROR", !.detail = result.message]
    ELSE WvUnhandledResponse

NoWvRequest ==
    [op |-> "none", text |-> <<>>, collection |-> "", limit |-> 0, client_error |-> NoExc,
     raised |-> NoExc, escaped |-> FALSE, response |-> NoWvResponse]

\* what is kept of the request before the last one: the text, collection
\* and identifier of a successful embed
Earlier(w) ==
    IF w.op = "embed" /\ w.response.success
    THEN [op |-> "embed", text |-> w.text, collection |-> w.collection, uuid |-> w.response.uuid]
    ELSE [op |-> "none", text |-> <<>>, collection |-> "", uuid |-> 0]

InitWv ==
    /\ lifespan = NewLifespan
    /\ storage = [c \in Collections |-> <<>>]
    /\ uuid_counter = 0
    /\ wv_last = NoWvRequest
    /\ wv_prev = Earlier(NoWvRequest)

\* application startup
Startup ==
    \E failConnect \in BOOLEAN :
        /\ lifespan.phase = "new"
        /\ lifespan' = LifespanEnter(lifespan, failConnect)
        /\ UNCHANGED <<storage, uuid_counter, wv_last, wv_prev>>
        /\ UNCHANGED <<varsCtx, varsHttp, varsFn>>

\* application shutdown
Shutdown ==
    \E failClose \in BOOLEAN :
        /\ lifespan.phase = "serving"
        /\ lifespan' = LifespanExit(lifespan, failClose)
        /\ UNCHANGED <<storage, uuid_counter, wv_last, wv_prev>>
        /\ UNCHANGED <<varsCtx, varsHttp, varsFn>>

\* POST /weaviate/embed: payload validation, WeaviateService.embed_text ->
\* embed_text_in_weaviate on the container's client, route embed_text
Embed ==
    \E text \in Texts, collection \in Collections, clientError \in ClientOutcomes :
        /\ lifespan.phase = "serving"
        /\ uuid_counter < MaxDocs
        /\ lifespan' = [lifespan EXCEPT !.clients = SingletonGet(@)]
        /\ wv_prev' = Earlier(wv_last)
        /\ IF ~TextOk(text)
           THEN /\ wv_last' = [NoWvRequest EXCEPT !.op = "embed", !.text = text,
                                                  !.collection = collection,
                                                  !.response = WvValidationResponse]
                /\ UNCHANGED <<storage, uuid_counter>>
           ELSE LET result == embed_text_in_weaviate(storage, uuid_counter, text,
                                                     collection, clientError)
                    stored == StoreInsert(storage, uuid_counter, text, collection)
                    response == embed_text(result)
                IN /\ wv_last' = [NoWvRequest EXCEPT !.op = "embed", !.text = text,
                                                     !.collection = collection,
                                                     !.client_error = clientError,
                                                     !.raised = result.raised,
                                                     !.escaped = (response.body = "plain"),
                                                     !.response = response]
                   /\ storage' = IF clientError = NoExc THEN stored.storage ELSE storage
                   /\ uuid_counter' = IF clientError = NoExc THEN stored.uuid_counter
                                      ELSE uuid_counter
        /\ UNCHANGED <<varsCtx, varsHttp, varsFn>>

\* POST /weaviate/search: payload validation, WeaviateService.search ->
\* search_in_weaviate on the container's client, route search_weaviate
Search ==
    \E query \in Texts, collection \in Collections, limit \in Limits,
       clientError \in ClientOutcomes :
        /\ lifespan.phase = "serving"
        /\ lifespan' = [lifespan EXCEPT !.clients = SingletonGet(@)]
        /\ wv_prev' = Earlier(wv_last)
        /\ IF ~TextOk(query)
           THEN wv_last' = [NoWvRequest EXCEPT !.op = "search", !.text = query,
                                               !.collection = collection, !.limit = limit,
                                               !.response = WvValidationResponse]
           ELSE LET result == search_in_weaviate(storage, query, collection, limit,
                                                 clientError)
                    response == search_weaviate(result)
                IN wv_last' = [NoWvRequest EXCEPT !.op = "search", !.text = query,
                                                  !.collection = collection, !.limit = limit,
                                                  !.client_error = clientError,
                                                  !.raised = result.raised,
                                                  !.escaped = (response.body = "plain"),
                                                  !.response = response]
        /\ UNCHANGED <<storage, uuid_counter>>
        /\ UNCHANGED <<varsCtx, varsHttp, varsFn>>

\* ------------------------------------------- pure functions on their own
\* an EmailStr not constructed yet
NotConstructed ==
    [called |-> FALSE, raised |-> NoExc, value |-> <<>>, code |-> "", message |-> "",
     status_code |-> 0, errors |-> <<>>, detail |-> {}]

\* optional values: <<>> is None, <<v>> is the value v
Absent == <<>>
Given(v) == <<v>>

\* AppResponse with every optional field at its default
NoEnvelope ==
    [success |-> FALSE, data |-> Absent, message |-> Absent, meta |-> Absent,
     error |-> Absent, trace_id |-> Absent]

NoEnvArgs ==
    [data |-> Absent, message |-> Absent, meta |-> Absent, trace_id |-> Absent,
     code |-> "", fail_message |-> "", detail |-> {}, errors |-> Absent,
     status_code |-> 0, domain |-> FALSE]

NoEnvOut == [kind |-> "none", status_code |-> 0, envelope |-> NoEnvelope]

\* (name, surname) arguments of create_email
FnNames ==
    {<<>>, <<"A", "l">>, <<"a", "L">>, <<"a", "l">>, <<"S", "-", "M">>, <<"s", "-", "m">>}
FnPairs == [user_name : FnNames, user_surname : FnNames]
FnCalls == 1..2

\* an email is never empty, so <<>> marks a call not made yet
NotCalled == <<>>

InitCreateEmail ==
    /\ email_in \in [FnCalls -> FnPairs]
    /\ email_out = [i \in FnCalls |-> NotCalled]
    /\ str_in = <<>>
    /\ str_out = NotConstructed
    /\ env_args = NoEnvArgs
    /\ env_out = NoEnvOut

\* create_email(user_name, user_surname)
CreateEmailCall ==
    \E i \in FnCalls :
        /\ i \in DOMAIN email_out
        /\ email_out[i] = NotCalled
        /\ email_out' = [email_out EXCEPT ![i] =
                            create_email(email_in[i].user_name, email_in[i].user_surname)]
        /\ UNCHANGED <<email_in, str_in, str_out, env_args, env_out>>
        /\ UNCHANGED <<varsCtx, varsHttp, varsWv>>

\* strings of up to MaxValueLen characters given to EmailStr
MaxValueLen == 4
ValueChars == {"a", "@", "."}
EmailValues == UNION {[1..n -> ValueChars] : n \in 0..MaxValueLen}

DomainValidationErrorName == "DomainValidationError"

\* DomainValidationError(message, field=field, detail=detail): code
\* VALIDATION_ERROR, status 422, errors [(field, message)]; detail is a dict,
\* kept as its set of (key, value) pairs
DomainValidationError(message, field, detail) ==
    [NotConstructed EXCEPT !.called = TRUE, !.raised = DomainValidationErrorName,
                           !.code = "VALIDATION_ERROR", !.message = message,
                           !.status_code = 422,
                           !.errors = << <<field, message>> >>, !.detail = detail]

\* EmailStr(value): the dataclass keeps value; __post_init__ raises when
\* the value holds no "@"
EmailStr(value) ==
    IF ~EmailStrOk(value)
    THEN DomainValidationError("Invalid email address", "email", {<<"value", value>>})
    ELSE [NotConstructed EXCEPT !.called = TRUE, !.value = value]

InitEmailStr ==
    /\ str_in \in EmailValues
    /\ str_out = NotConstructed
    /\ email_in = <<>>
    /\ email_out = <<>>
    /\ env_args = NoEnvArgs
    /\ env_out = NoEnvOut

\* EmailStr(str_in)
EmailStrConstruct ==
    /\ str_in \in EmailValues
    /\ ~str_out.called
    /\ str_out' = EmailStr(str_in)
    /\ UNCHANGED <<email_in, email_out, str_in, env_args, env_out>>
    /\ UNCHANGED <<varsCtx, varsHttp, varsWv>>

\* -------------------------------------- AppResponse, app_exception_handler
\* an AppResponse.ok that writes every optional key, with a default
AppResponseOkAllKeys(data, message, meta, trace_id) ==
    [NoEnvelope EXCEPT !.success = TRUE,
                       !.data = data,
                       !.message = IF message # Absent THEN message ELSE Given(""),
                       !.meta = meta,
                       !.trace_id = IF trace_id # Absent THEN trace_id ELSE Given("")]

\* AppResponse.ok(data, message=None, meta=None, trace_id=None): success and
\* data always, the other keys only when they are not None
AppResponseOk(data, message, meta, trace_id) ==
    [NoEnvelope EXCEPT !.success = TRUE,
                       !.data = data,
                       !.message = IF message # Absent THEN message ELSE @,
                       !.meta = IF meta # Absent THEN meta ELSE @,
                       !.trace_id = IF trace_id # Absent THEN trace_id ELSE @]

\* ErrorInfo(code=code, message=message, detail=detail, errors=errors or [])
ErrorInfo(code, message, detail, errors) ==
    [code |-> code, message |-> message, detail |-> detail,
     errors |-> IF errors = Absent THEN <<>> ELSE errors[1]]

\* AppResponse.fail(code, message, detail=None, errors=None, trace_id=None)
AppResponseFail(code, message, detail, errors, trace_id) ==
    [NoEnvelope EXCEPT !.error = Given(ErrorInfo(code, message, detail, errors)),
                       !.trace_id = IF trace_id # Absent THEN trace_id ELSE @]

\* AppException(code=..., message=..., status_code=..., detail=..., errors=...):
\* errors is kept as list(errors or [])
AppException(code, message, status_code, detail, errors) ==
    [NotConstructed EXCEPT !.called = TRUE, !.raised = "AppException",
                           !.code = code, !.message = message,
                           !.status_code = status_code, !.detail = detail,
                           !.errors = IF errors = Absent THEN <<>> ELSE errors[1]]

\* [FieldError(field=field, reason=reason) for field, reason in exc.errors]
FieldErrors(pairs) ==
    [i \in 1..Len(pairs) |-> [field |-> pairs[i][1], reason |-> pairs[i][2]]]

\* a handler that answers every application exception with status 400
app_exception_handler_always_400(exc, trace_id) ==
    [status_code |-> 400,
     envelope |-> AppResponseFail(exc.code, exc.message, exc.detail,
                                  Given(FieldErrors(exc.errors)), trace_id)]

\* app_exception_handler: JSONResponse(status_code=exc.status_code,
\* content=AppResponse.fail(code=exc.code, message=exc.message,
\* detail=exc.detail, errors=errors, trace_id=trace_id))
app_exception_handler(exc, trace_id) ==
    [status_code |-> exc.status_code,
     envelope |-> AppResponseFail(exc.code, exc.message, exc.detail,
                                  Given(FieldErrors(exc.errors)), trace_id)]

\* members of ErrorCode in use
ErrorCodes == {"VALIDATION_ERROR", "INTERNAL_ERROR", "CONFLICT"}

\* (field, reason) pairs an exception or a fail call may carry: None, an
\* empty list, one pair, two pairs
ErrorLists ==
    {Absent,
     Given(<<>>),
     Given(<< <<"email", "invalid format">> >>),
     Given(<< <<"user_name", "too short">>, <<"email", "invalid format">> >>)}

EnvArgs ==
    [data : {Absent, Given("value")},
     message : {Absent, Given(""), Given("All good")},
     meta : {Absent, Given("pagination")},
     trace_id : {Absent, Given("trace-123")},
     code : ErrorCodes,
     fail_message : {"", "Something went wrong"},
     detail : {{}, {<<"field", <<"e">> >>}},
     errors : ErrorLists,
     status_code : {400, 409},
     domain : BOOLEAN]

InitEnvelope ==
    /\ env_args \in EnvArgs
    /\ env_out = NoEnvOut
    /\ email_in = <<>>
    /\ email_out = <<>>
    /\ str_in = <<>>
    /\ str_out = NotConstructed

\* AppResponse.ok(...) on the arguments
BuildOk ==
    /\ env_args # NoEnvArgs
    /\ env_out.kind = "none"
    /\ env_out' = [NoEnvOut EXCEPT !.kind = "ok",
                                   !.envelope = AppResponseOk(env_args.data, env_args.message,
                                                              env_args.meta, env_args.trace_id)]
    /\ UNCHANGED <<email_in, email_out, str_in, str_out, env_args>>
    /\ UNCHANGED <<varsCtx, varsHttp, varsWv>>

\* AppResponse.fail(...) on the arguments
BuildFail ==
    /\ env_args # NoEnvArgs
    /\ env_out.kind = "none"
    /\ env_out' = [NoEnvOut EXCEPT !.kind = "fail",
                                   !.envelope =
                                      AppResponseFail(env_args.code, env_args.fail_message,
                                                      env_args.detail,
                                                      IF env_args.errors = Absent THEN Absent
                                                      ELSE Given(FieldErrors(env_args.errors[1])),
                                                      env_args.trace_id)]
    /\ UNCHANGED <<email_in, email_out, str_in, str_out, env_args>>
    /\ UNCHANGED <<varsCtx, varsHttp, varsWv>>

\* the application exception made from the arguments: a DomainValidationError
\* on field "email", or an AppException with the code, status and errors given
RaisedAppException(a) ==
    IF a.domain
    THEN DomainValidationError(a.fail_message, "email", a.detail)
    ELSE AppException(a.code, a.fail_message, a.status_code, a.detail, a.errors)

\* app_exception_handler(request, exc) with request.state.trace_id = trace_id
HandleAppException ==
    /\ env_args # NoEnvArgs
    /\ env_out.kind = "none"
    /\ LET answer == app_exception_handler(RaisedAppException(env_args), env_args.trace_id)
       IN env_out' = [kind |-> "handled", status_code |-> answer.status_code,
                      envelope |-> answer.envelope]
    /\ UNCHANGED <<email_in, email_out, str_in, str_out, env_args>>
    /\ UNCHANGED <<varsCtx, varsHttp, varsWv>>

\* ----------------------------------------------------------- specifications
\* no call of the pure functions is in progress
InitFnIdle ==
    /\ email_in = <<>>
    /\ email_out = <<>>
    /\ str_in = <<>>
    /\ str_out = NotConstructed
    /\ env_args = NoEnvArgs
    /\ env_out = NoEnvOut

Init == InitCtx /\ InitHttp /\ InitWv /\ InitFnIdle

\* any sequence of scope entries and exits on one Context
Next ==
    \/ SessionEnter
    \/ AutocommitEnter
    \/ SessionExit
    \/ AutocommitExit
    \/ UoWEnter
    \/ UoWExit

Spec == Init /\ [][Next]_vars

\* concurrent POST /users requests, each with its own Context
NextHttp ==
    \/ Receive
    \/ OpenScope
    \/ Execute
    \/ ExitScope
    \/ Respond
    \/ ReadBack

SpecHttp == Init /\ [][NextHttp]_vars

\* one application lifetime serving /weaviate requests
NextWv ==
    \/ Startup
    \/ Embed
    \/ Search
    \/ Shutdown

SpecWv == Init /\ [][NextWv]_vars

\* create_email applied to two argument pairs
NextCreateEmail == CreateEmailCall

InitForCreateEmail == InitCtx /\ InitHttp /\ InitWv /\ InitCreateEmail

SpecCreateEmail == InitForCreateEmail /\ [][NextCreateEmail]_vars

\* EmailStr constructed from one value
NextEmailStr == EmailStrConstruct

InitForEmailStr == InitCtx /\ InitHttp /\ InitWv /\ InitEmailStr

SpecEmailStr == InitForEmailStr /\ [][NextEmailStr]_vars

\* one envelope built from one set of arguments
NextEnvelope ==
    \/ BuildOk
    \/ BuildFail
    \/ HandleAppException

InitForEnvelope == InitCtx /\ InitHttp /\ InitWv /\ InitEnvelope

SpecEnvelope == InitForEnvelope /\ [][NextEnvelope]_vars

\* ------------------------------------------------------------ properties
Without(stack, s) == SelectSeq(stack, LAMBDA x : x # s)

Count(seq, c) == Cardinality({i \in 1..Len(seq) : seq[i] = c})

UoWExited == last.op = "uow_exit" /\ last.session # None

\* C1: a UnitOfWork entered and then exited has called, on its session,
\* commit once and never rollback when the exit carried no error, rollback
\* once and never commit when it carried one, and in both cases close once,
\* after the commit / rollback.
C1_CommitOrRollbackThenClose ==
    /\ \A s \in SessionIds :
          uow_exits[s] = 1 => calls[s] \in {<<"commit", "close">>, <<"rollback", "close">>}
    /\ (UoWExited /\ uow_exits[last.session] = 1) =>
          calls[last.session] = IF last.exc = NoExc
                                THEN <<"commit", "close">>
                                ELSE <<"rollback", "close">>

C1_Witness ==
    /\ UoWExited
    /\ last.exc = BodyError
    /\ uow_exits[last.session] = 1
    /\ calls[last.session] = <<"rollback", "close">>

\* C2: after any UnitOfWork exit the stack no longer contains that unit of
\* work's session and every other session is still on it in the same
\* relative order, also when the exits are interleaved.
C2_ExitRemovesOwnSessionOnly ==
    [][(last'.op = "uow_exit" /\ last'.session # None)
          => session_stack' = Without(session_stack, last'.session)]_vars

\* C3: after any sequence of scope entries and exits, db_session raises
\* RuntimeError when no scope is open and otherwise returns the session of
\* the scope opened last among those not yet exited.
C3_InnermostOpenScopeWins ==
    IF open_scopes = <<>>
    THEN db_session(session_stack).raised = RuntimeError
    ELSE /\ db_session(session_stack).raised = NoExc
         /\ db_session(session_stack).session = open_scopes[Len(open_scopes)].session

AutocommitExited == last.op = "autocommit_exit"

C5_SessionScopeReleasesOwnSession ==
    last.op = "session_exit" =>
        /\ ~Contains(session_stack, last.session)
        /\ calls[last.session] = <<"close">>

\* C6: entering a UnitOfWork that already holds a session fails with a
\* usage error and leaves the stack and the recorded session unchanged.
C6_SecondEnterIsUsageError ==
    [][\A u \in UoWIds :
          (last'.op = "uow_enter" /\ last'.owner = UoWOwner(u) /\ last' # last
             /\ uow_session[u] # None)
          => /\ last'.raised = RuntimeError
             /\ session_stack' = session_stack
             /\ uow_session' = uow_session]_vars

\* C7: in a UnitOfWork exit whose commit or rollback raises, close is still
\* called once, the session is still removed from the stack, and the
\* commit / rollback exception propagates (a close that raises afterwards
\* puts its own exception on top of it).
C7_TxFailureStillReleases ==
    (UoWExited /\ uow_exits[last.session] = 1
       /\ (last.failed.commit \/ last.failed.rollback)) =>
        /\ Count(calls[last.session], "close") = 1
        /\ ~Contains(session_stack, last.session)
        /\ ~last.failed.close =>
              last.raised = IF last.failed.commit THEN CommitError ELSE RollbackError

\* C8: whichever of commit, rollback or close raises in a UnitOfWork exit,
\* afterwards the stack no longer contains the session and the unit of
\* work's session reference is None.
C8_BookkeepingNeverSkipped ==
    UoWExited =>
        /\ ~Contains(session_stack, last.session)
        /\ uow_session[last.owner[2]] = None

\* C9: when the body raised and the rollback raises too, the body's
\* exception is masked: the rollback exception propagates in its place (a
\* close that raises afterwards puts its own exception on top of it), and
\* the session is still closed and removed from the stack (unit of work and
\* autocommit_scope).
C9_RollbackFailureMasksBodyError ==
    ((UoWExited \/ AutocommitExited) /\ last.exc # NoExc /\ last.failed.rollback) =>
        /\ last.raised # last.exc
        /\ ~last.failed.close => last.raised = RollbackError
        /\ Count(calls[last.session], "close") >= 1
        /\ ~Contains(session_stack, last.session)

\* C10: a POST /users request with a valid payload, served without a store
\* failure, is answered 201 "User created" with data.email the email derived
\* from the submitted name and surname; whenever 201 is answered the row
\* (name, surname, derived email) is committed by then, and a session opened
\* independently afterwards reads it.
C10_CreatedMeansCommitted ==
    \A r \in RequestIds :
        LET p == req[r].payload
            resp == req[r].response
            derived == create_email(p.user_name, p.user_surname)
            Mine(row) == row.name = p.user_name /\ row.surname = p.user_surname
                            /\ row.email = derived
        IN /\ (req[r].pc \in {"done", "read"} /\ ValidationErrors(p) = <<>>
                 /\ req[r].raised = NoExc) => resp.status = 201
           /\ resp.status = 201 =>
                 /\ resp.success /\ resp.message = "User created"
                 /\ resp.data.email = derived
                 /\ resp.data.user_name = p.user_name
                 /\ resp.data.user_surname = p.user_surname
                 /\ \E row \in db_rows : Mine(row)
           /\ req[r].pc = "read" => \E row \in req[r].read : Mine(row)

C10_Witness ==
    \E r \in RequestIds :
        /\ req[r].pc = "read"
        /\ req[r].payload.user_name = <<"a", "L", "I">>
        /\ req[r].response.status = 201
        /\ req[r].response.data.email = <<"a", "l", "i", ".", "s", "m">> \o ExampleDomain
        /\ \E row \in req[r].read : row.name = <<"a", "L", "I">>

\* C11: a POST /users payload with user_name shorter than 3 or longer than
\* 50, user_surname shorter than 1 or longer than 50, or password shorter
\* than 6 is answered 422 with code VALIDATION_ERROR and exactly one field
\* error per violating field, and the handler body never ran for it: the
\* email was not derived, no session was opened, no row was inserted, and
\* every committed row belongs to a request whose payload was valid.
ViolatingFields(p) ==
    {f \in {"user_name", "user_surname", "password"} :
        \/ f = "user_name" /\ (Len(p.user_name) < 3 \/ Len(p.user_name) > 50)
        \/ f = "user_surname" /\ (Len(p.user_surname) < 1 \/ Len(p.user_surname) > 50)
        \/ f = "password" /\ Len(p.password) < 6}

C11_SchemaViolationRejectedBeforeHandler ==
    /\ \A r \in RequestIds :
          (req[r].pc # "idle" /\ ViolatingFields(req[r].payload) # {}) =>
              LET resp == req[r].response
              IN /\ req[r].pc = "done"
                 /\ resp.status = 422
                 /\ resp.body = "envelope"
                 /\ ~resp.success
                 /\ resp.error_code = "VALIDATION_ERROR"
                 /\ {resp.errors[i] : i \in 1..Len(resp.errors)} = ViolatingFields(req[r].payload)
                 /\ Len(resp.errors) = Cardinality(ViolatingFields(req[r].payload))
                 /\ req[r].email = <<>>
                 /\ req[r].session = None
                 /\ req[r].stack = <<>>
                 /\ req[r].row = NoRow
                 /\ req[r].pending = {}
    /\ \A row \in db_rows :
          \E q \in RequestIds : req[q].row = row /\ ViolatingFields(req[q].payload) = {}

\* two fields violate (the case of test_create_user_validation_error), and
\* a request with an over-long name is rejected as well
C11_Witness ==
    \E r, q \in RequestIds :
        /\ req[r].pc = "done"
        /\ req[r].payload.user_name = <<"A", "l">>
        /\ req[r].payload.user_surname = <<"S", "m">>
        /\ req[r].payload.password = <<"s", "h", "o", "r", "t">>
        /\ req[r].response.errors = <<"user_name", "password">>
        /\ req[q].pc = "done"
        /\ req[q].payload.user_name = LongText
        /\ req[q].response.errors = <<"user_name">>

Answered(r) == req[r].pc \in {"done", "read"}

\* C12: every response of POST /users has the AppResponse envelope as its
\* body, on success and on every failure; a request whose handler re-raised
\* an unexpected exception (a database failure) is answered with an
\* envelope that reports an internal error.
C12_EveryResponseIsEnvelope ==
    \A r \in RequestIds :
        Answered(r) =>
            /\ req[r].response.body = "envelope"
            /\ req[r].raised # NoExc =>
                  /\ ~req[r].response.success
                  /\ req[r].response.error_code = "INTERNAL_ERROR"

\* C13: every response carries an X-Trace-Id header equal to the trace id
\* assigned to its request, which is also the trace_id of the envelope; this
\* holds on success, on handler-produced errors and when the handler raised
\* an unexpected exception.
C13_TraceIdHeaderOnEveryResponse ==
    \A r \in RequestIds :
        Answered(r) =>
            /\ req[r].trace_id # 0
            /\ req[r].response.header_trace_id = req[r].trace_id
            /\ req[r].response.trace_id = req[r].trace_id

ClientFailed == wv_last.op \in {"embed", "search"} /\ wv_last.client_error # NoExc

\* C14: when the vector-store client raises during POST /weaviate/embed or
\* POST /weaviate/search, the data-access function raises the one
\* normalized error (ValueError) whose message carries the client's message,
\* the route answers with a success:false envelope coded WEAVIATE_ERROR
\* whose detail contains that message, no exception leaves the handler and
\* the status is neither 4xx nor 5xx.
C14_ClientFailureBecomesErrorEnvelope ==
    ClientFailed =>
        LET resp == wv_last.response
        IN /\ wv_last.raised = ValueError
           /\ ~wv_last.escaped
           /\ resp.body = "envelope"
           /\ ~resp.success
           /\ resp.error_code = "WEAVIATE_ERROR"
           /\ \E i \in 1..Len(resp.detail) : resp.detail[i] = wv_last.client_error
           /\ resp.status >= 200 /\ resp.status < 400

\* a search failed in the client after objects had been stored
C14_Witness ==
    /\ ClientFailed
    /\ wv_last.op = "search"
    /\ wv_last.client_error = "connection refused"
    /\ wv_last.response.detail = <<"Failed to search: ", "connection refused">>
    /\ wv_last.response.status = 200
    /\ uuid_counter > 0

\* C15: POST /weaviate/embed answers 201 when the embed succeeds and 200,
\* with the success:false WEAVIATE_ERROR envelope, when the vector-store
\* operation fails.
C15_EmbedStatusCodes ==
    (wv_last.op = "embed" /\ TextOk(wv_last.text)) =>
        LET resp == wv_last.response
        IN /\ wv_last.client_error = NoExc => (resp.status = 201 /\ resp.success)
           /\ wv_last.client_error # NoExc =>
                 (resp.status = 200 /\ ~resp.success /\ resp.error_code = "WEAVIATE_ERROR")

Elems(stack) == {stack[i] : i \in 1..Len(stack)}

\* C16: each request works with a Context of its own. For any interleaving
\* of concurrent requests: the session stacks of two requests share no
\* session; a stack holds only the session its own request created, so
\* db_session in a request returns that session; and a step of one request
\* (a scope entry or exit included) leaves the stack of every other request
\* unchanged.
C16_RequestsShareNoSessionStack ==
    /\ [](\A r, q \in RequestIds :
            /\ r # q => Elems(StackOf(r)) \cap Elems(StackOf(q)) = {}
            /\ Elems(StackOf(r)) \subseteq {req[r].session} \ {None}
            /\ req[r].pc \in {"scope_open", "executed"} =>
                  /\ db_session(StackOf(r)).raised = NoExc
                  /\ db_session(StackOf(r)).session = req[r].session)
    /\ [][\A r, q \in RequestIds :
            (r # q /\ req[r]' # req[r]) => req[q]' = req[q]]_vars

\* two requests are inside their scopes at once, each with its own session
C16_Witness ==
    \E r, q \in RequestIds :
        /\ r # q
        /\ req[r].pc = "executed"
        /\ req[q].pc = "scope_open"
        /\ StackOf(r) = <<req[r].session>>
        /\ StackOf(q) = <<req[q].session>>
        /\ req[r].session # req[q].session

\* C17: over one application lifetime the engine and the vector-store
\* client are created once; the client is connected exactly once before any
\* request is served; after shutdown the client has been closed exactly once
\* and the engine disposed exactly once, also when closing the client raised.
C17_SingletonsSetUpAndTornDownOnce ==
    /\ lifespan.engines <= 1 /\ lifespan.clients <= 1
    /\ lifespan.connects <= 1 /\ lifespan.closes <= 1 /\ lifespan.disposes <= 1
    /\ wv_last.op # "none" =>
          (lifespan.connects = 1 /\ lifespan.clients = 1 /\ lifespan.engines = 1)
    /\ lifespan.phase = "serving" =>
          (lifespan.connects = 1 /\ lifespan.closes = 0 /\ lifespan.disposes = 0)
    /\ lifespan.phase = "stopped" =>
          (lifespan.connects = 1 /\ lifespan.closes = 1 /\ lifespan.disposes = 1
           /\ ~lifespan.wired)

\* requests were served, then closing the client raised at shutdown
C17_Witness ==
    /\ lifespan.phase = "stopped"
    /\ lifespan.close_raised
    /\ lifespan.disposes = 1
    /\ uuid_counter > 0
    /\ wv_last.op = "search"

\* the same text up to the case of its letters
CasePairs == {<<"A", "a">>, <<"L", "l">>, <<"S", "s">>, <<"M", "m">>, <<"I", "i">>}
SameIgnoringCase(a, b) ==
    /\ Len(a) = Len(b)
    /\ \A k \in 1..Len(a) :
          a[k] = b[k] \/ <<a[k], b[k]>> \in CasePairs \/ <<b[k], a[k]>> \in CasePairs

UpperCase == {p[1] : p \in CasePairs}

\* C18: create_email returns lower(name) + "." + lower(surname) +
\* "@example.com": the result holds no upper-case letter, and two pairs that
\* differ only in letter case give the same email.
C18_CreateEmailLowercases ==
    /\ \A i \in DOMAIN email_out :
          email_out[i] # NotCalled =>
              /\ email_out[i] = Lower(email_in[i].user_name) \o <<".">>
                                   \o Lower(email_in[i].user_surname)
                                   \o <<"@", "e", "x", "a", "m", "p", "l", "e", ".", "c", "o", "m">>
              /\ \A k \in 1..Len(email_out[i]) : email_out[i][k] \notin UpperCase
    /\ \A i, j \in DOMAIN email_out :
          (/\ email_out[i] # NotCalled
           /\ email_out[j] # NotCalled
           /\ SameIgnoringCase(email_in[i].user_name, email_in[j].user_name)
           /\ SameIgnoringCase(email_in[i].user_surname, email_in[j].user_surname))
          => email_out[i] = email_out[j]

\* "Al" / "S-M" and "aL" / "s-m" both gave al.s-m@example.com
C18_Witness ==
    /\ DOMAIN email_out = FnCalls
    /\ email_in[1] = [user_name |-> <<"A", "l">>, user_surname |-> <<"S", "-", "M">>]
    /\ email_in[2] = [user_name |-> <<"a", "L">>, user_surname |-> <<"s", "-", "m">>]
    /\ email_out[1] = <<"a", "l", ".", "s", "-", "m", "@", "e", "x", "a", "m", "p", "l", "e", ".", "c", "o", "m">>
    /\ email_out[2] = email_out[1]

HasAt(value) == \E k \in 1..Len(value) : value[k] = "@"

\* C19: EmailStr(s) for s without "@" raises DomainValidationError with code
\* VALIDATION_ERROR, status 422, errors [("email", "Invalid email address")]
\* and detail {"value": s}; for s with "@" it succeeds and its value is s.
C19_EmailStrRequiresAt ==
    str_out.called =>
        /\ ~HasAt(str_in) =>
              /\ str_out.raised = "DomainValidationError"
              /\ str_out.code = "VALIDATION_ERROR"
              /\ str_out.status_code = 422
              /\ str_out.errors = << <<"email", "Invalid email address">> >>
              /\ str_out.detail = {<<"value", str_in>>}
        /\ HasAt(str_in) =>
              /\ str_out.raised = NoExc
              /\ str_out.value = str_in

\* a non-empty value without "@" was rejected
C19_Witness ==
    /\ str_out.called
    /\ str_in = <<"a", ".", "a">>
    /\ str_out.raised = "DomainValidationError"
    /\ str_out.detail = {<<"value", <<"a", ".", "a">> >>}

\* C20: for any text t and collection c the schemas accept, after any
\* earlier embeds, an embed of t into c followed by a search of c with query
\* t and the default limit returns a result set that contains the identifier
\* the embed returned.
C20_SearchFindsWhatWasJustEmbedded ==
    (/\ wv_prev.op = "embed"
     /\ wv_last.op = "search"
     /\ wv_last.client_error = NoExc
     /\ wv_last.limit = DefaultLimit
     /\ wv_last.collection = wv_prev.collection
     /\ wv_last.text = wv_prev.text)
    => \E i \in 1..Len(wv_last.response.results) :
          wv_last.response.results[i].uuid = wv_prev.uuid

SearchSucceeded == wv_last.op = "search" /\ wv_last.response.success

\* C21: for every successful search, after any sequence of embeds, count
\* equals the number of results, there are at most `limit` results, and
\* every result is an object stored in the searched collection and in no
\* other collection.
C21_SearchResultsCountedLimitedAndScoped ==
    SearchSucceeded =>
        LET resp == wv_last.response
        IN /\ resp.count = Len(resp.results)
           /\ Len(resp.results) <= wv_last.limit
           /\ \A i \in 1..Len(resp.results) :
                 /\ \E j \in 1..Len(storage[wv_last.collection]) :
                       /\ storage[wv_last.collection][j].uuid = resp.results[i].uuid
                       /\ storage[wv_last.collection][j].text = resp.results[i].text
                 /\ \A c \in Collections \ {wv_last.collection} :
                       \A j \in 1..Len(storage[c]) :
                           storage[c][j].uuid # resp.results[i].uuid

\* two stored objects match the query and the limit of 1 lets one through
C21_Witness ==
    /\ SearchSucceeded
    /\ wv_last.limit = 1
    /\ Len(storage[wv_last.collection]) = 2
    /\ \A j \in 1..2 : Overlap(wv_last.text, storage[wv_last.collection][j].text) > 0
    /\ wv_last.response.count = 1

SessionsCreated == http_next_session - 1

\* C22: a user creation opens no session and makes no commit or rollback
\* besides those of create_user_in_db's autocommit scope: every request
\* that reached the handler body created exactly one session, and a
\* creation that succeeded called, on that one session, commit once and
\* close once and nothing else.
C22_OneSessionOneCommitOneClose ==
    /\ SessionsCreated = Cardinality({r \in RequestIds : req[r].session # None})
    /\ \A r, q \in RequestIds :
          (r # q /\ req[r].session # None) => req[r].session # req[q].session
    /\ \A r \in RequestIds :
          (req[r].pc \in {"returning", "done", "read"} /\ req[r].session # None
           /\ req[r].raised = NoExc /\ req[r].exc = NoExc) =>
              http_calls[req[r].session] = <<"commit", "close">>

\* two creations succeeded, each on its own session
C22_Witness ==
    /\ SessionsCreated = 2
    /\ \A r \in 1..2 :
          /\ req[r].response.status = 201
          /\ http_calls[req[r].session] = <<"commit", "close">>

Envelope == env_out.envelope

\* C23: AppResponse.ok gives success true, the given data and no error;
\* AppResponse.fail gives success false, no data and an error with the given
\* code and message, its field errors being [] when none were given; so in
\* every envelope built success is false exactly when an error is present,
\* and message, meta and trace_id are set only when, and as, supplied.
C23_EnvelopeShape ==
    /\ env_out.kind = "ok" =>
          /\ Envelope.success
          /\ Envelope.data = env_args.data
          /\ Envelope.error = Absent
          /\ Envelope.message # Absent => Envelope.message = env_args.message
          /\ Envelope.meta # Absent => Envelope.meta = env_args.meta
    /\ env_out.kind = "fail" =>
          /\ ~Envelope.success
          /\ Envelope.data = Absent
          /\ Envelope.error # Absent
          /\ Envelope.error[1].code = env_args.code
          /\ Envelope.error[1].message = env_args.fail_message
          /\ env_args.errors = Absent => Envelope.error[1].errors = <<>>
          /\ Envelope.message = Absent
          /\ Envelope.meta = Absent
    /\ env_out.kind # "none" =>
          /\ ~Envelope.success <=> Envelope.error # Absent
          /\ Envelope.trace_id # Absent => Envelope.trace_id = env_args.trace_id

\* a fail call without field errors and without a trace id
C23_Witness ==
    /\ env_out.kind = "fail"
    /\ env_args.errors = Absent
    /\ env_args.trace_id = Absent
    /\ env_args.code = "INTERNAL_ERROR"
    /\ Envelope.error[1].errors = <<>>
    /\ Envelope.trace_id = Absent

\* C24: for an application exception (AppException, DomainValidationError)
\* given to the global handler, the response has the exception's status
\* code, success false, error.code and error.message of the exception,
\* error.errors equal to its (field, reason) pairs in order, and the
\* request's trace id.
C24_AppExceptionMapsToEnvelope ==
    env_out.kind = "handled" =>
        LET a == env_args
            pairs == IF a.domain THEN << <<"email", a.fail_message>> >>
                     ELSE IF a.errors = Absent THEN <<>> ELSE a.errors[1]
        IN /\ env_out.status_code = IF a.domain THEN 422 ELSE a.status_code
           /\ ~Envelope.success
           /\ Envelope.error # Absent
           /\ Envelope.error[1].code = IF a.domain THEN "VALIDATION_ERROR" ELSE a.code
           /\ Envelope.error[1].message = a.fail_message
           /\ Len(Envelope.error[1].errors) = Len(pairs)
           /\ \A i \in 1..Len(pairs) :
                 /\ Envelope.error[1].errors[i].field = pairs[i][1]
                 /\ Envelope.error[1].errors[i].reason = pairs[i][2]
           /\ Envelope.trace_id = a.trace_id

\* a CONFLICT exception with status 409 and two field errors was handled
C24_Witness ==
    /\ env_out.kind = "handled"
    /\ ~env_args.domain
    /\ env_args.code = "CONFLICT"
    /\ env_out.status_code = 409
    /\ Len(Envelope.error[1].errors) = 2
    /\ Envelope.error[1].errors[1].field = "user_name"
    /\ Envelope.trace_id = Given("trace-123")

\* the stack holds exactly the sessions of the open scopes, in opening order
StackMirrorsOpenScopes ==
    session_stack = [i \in 1..Len(open_scopes) |-> open_scopes[i].session]

\* the step is the exit of the scope opened last, another scope being open
InnerScopeExits ==
    /\ Len(open_scopes) >= 2
    /\ StackMirrorsOpenScopes
    /\ last'.op \in {"session_exit", "autocommit_exit", "uow_exit"}
    /\ calls' # calls
    /\ open_scopes' = Front(open_scopes)

\* C25: when a scope (session(), autocommit_scope(), unit of work) opened
\* inside another open scope of the same Context exits, commit, rollback
\* and close are called on the inner session only; the outer session gets
\* no call, is still on the stack and is what db_session returns again.
C25_InnerExitLeavesOuterSession ==
    [][InnerScopeExits =>
          LET inner == open_scopes[Len(open_scopes)].session
              outer == open_scopes[Len(open_scopes) - 1].session
          IN /\ \A s \in SessionIds : s # inner => calls'[s] = calls[s]
             /\ calls'[inner] # calls[inner]
             /\ Contains(session_stack', outer)
             /\ db_session(session_stack').raised = NoExc
             /\ db_session(session_stack').session = outer]_vars

\* the step is the exit of a session() or autocommit_scope() scope
ContextScopeExits ==
    /\ last'.op \in {"session_exit", "autocommit_exit"}
    /\ scopes' # scopes

\* C26: after the exit of a session() or autocommit_scope() scope the stack
\* does not contain that scope's session and still contains the session of
\* every other scope that is open, whatever the order of the exits and
\* whether or not units of work are interleaved.
C26_ExitKeepsOtherOpenSessions ==
    [][ContextScopeExits =>
          /\ ~Contains(session_stack', last'.session)
          /\ \A i \in 1..Len(open_scopes') :
                Contains(session_stack, open_scopes'[i].session)
                    => Contains(session_stack', open_scopes'[i].session)]_vars

\* the request is past create_user_in_db: its response or exception is on
\* the way out of the handler, or out
LeftHandler(r) == req[r].pc \in {"returning", "done", "read"}

\* C27: no session leaks from a POST /users request, whatever its outcome
\* (created, insert failure, commit failure, rollback failure): once the
\* response or the exception leaves the handler the session stack of the
\* request's Context is empty and the session the request obtained has been
\* closed exactly once.
C27_NoSessionLeak ==
    \A r \in RequestIds :
        LeftHandler(r) =>
            /\ StackOf(r) = <<>>
            /\ req[r].session # None =>
                  /\ Count(http_calls[req[r].session], "close") = 1
                  /\ http_calls[req[r].session][Len(http_calls[req[r].session])] = "close"

\* an insert failure whose rollback failed too, and a commit failure, each
\* with the session closed once and the stack empty
C27_Witness ==
    \E r, q \in RequestIds :
        /\ LeftHandler(r) /\ LeftHandler(q)
        /\ req[r].exc = BodyError /\ req[r].raised = RollbackError
        /\ http_calls[req[r].session] = <<"rollback", "close">>
        /\ req[q].exc = NoExc /\ req[q].raised = CommitError
        /\ http_calls[req[q].session] = <<"commit", "rollback", "close">>
        /\ StackOf(r) = <<>> /\ StackOf(q) = <<>>

\* the row the request inserted is among the committed rows
CommittedRowOf(r) == {row \in db_rows : row = req[r].row /\ row.id # NoRow.id}

\* C28: a POST /users request is answered 201 exactly when it committed one
\* new row; a request that ends otherwise (validation rejection, insert
\* failure, commit failure, any failure after the insert) has added nothing
\* to the committed rows.
C28_CreatedIffRowCommitted ==
    \A r \in RequestIds :
        req[r].pc \in {"done", "read"} =>
            /\ req[r].response.status = 201 <=> Cardinality(CommittedRowOf(r)) = 1
            /\ req[r].response.status # 201 => CommittedRowOf(r) = {}

\* the calls the session of the step's exit received in this step
CallsMade == SubSeq(calls'[last'.session], Len(calls[last'.session]) + 1,
                    Len(calls'[last'.session]))

\* C29: autocommit_scope() and unit_of_work() are interchangeable: for the
\* same body outcome (completion or an exception) and the same commit,
\* rollback and close succeeding or raising, the exit of the one calls on
\* its session what the exit of the other would call, and lets the same
\* exception propagate (body outcomes: completion, or an Exception).
C29_AutocommitAndUnitOfWorkAgree ==
    [][/\ (last'.op = "autocommit_exit" /\ scopes' # scopes
             /\ last'.exc \in {NoExc, BodyError}) =>
             LET other == UoWExitResult(session_stack, last'.session, last'.exc,
                                        last'.failed.commit \/ last'.failed.rollback,
                                        last'.failed.close)
             IN /\ CallsMade = other.calls
                /\ last'.raised = other.raised
       /\ (last'.op = "uow_exit" /\ last'.session # None /\ uow_exits' # uow_exits
             /\ last'.exc \in {NoExc, BodyError}) =>
             LET other == AutocommitExitResult(session_stack, last'.exc,
                                               last'.failed.commit, last'.failed.rollback,
                                               last'.failed.close)
             IN /\ CallsMade = other.calls
                /\ last'.raised = other.raised]_vars

\* C30: when the body of an autocommit_scope() is ended by a cancellation
\* (a BaseException that is not an Exception), neither commit nor rollback
\* is called, the session is still removed from the stack and closed
\* exactly once, and the cancellation propagates (a close that raises puts
\* its own exception in its place).
C30_CancelledScopeReleasesSession ==
    (AutocommitExited /\ last.exc = Cancelled) =>
        /\ calls[last.session] = <<"close">>
        /\ ~Contains(session_stack, last.session)
        /\ ~last.failed.close => last.raised = Cancelled
====
